---- MODULE Spec2Model ----
(***************************************************************************)
(* Lightning webstore (app.py): a Flask application that sells catalog     *)
(* items for Lightning invoices issued by an LND node.                     *)
(*                                                                         *)
(* The module models the startup configuration (auto_detect with manual    *)
(* defaults), the routes index, checkout, check_payment, success and       *)
(* node_info, and the helpers they use (get_product, generate_qr_base64,   *)
(* base64.b64decode, bytes.hex).  The LND node, the LNDClient wrapper and  *)
(* polar_detect are collaborators of app.py; they are modelled by their    *)
(* contracts (section 4.1 and 4.2 of the design document).                 *)
(*                                                                         *)
(* Python values: a dict is a TLA+ function whose DOMAIN is the set of     *)
(* keys, a str is a sequence of one-character strings where its content    *)
(* is computed (hex, base64, payment request) and a TLA+ string where it   *)
(* is opaque, bytes are sequences of 0..255.                               *)
(***************************************************************************)
EXTENDS Integers, Sequences, FiniteSets, TLC

VARIABLES
    pc,         \* "boot" before the module-level configuration ran, then "serving"
    detected,   \* what auto_detect("bob") returned at startup
    LND_DIR,    \* module global LND_DIR
    REST_HOST,  \* module global REST_HOST
    invoices,   \* the node's invoice store, in creation order
    surfaced,   \* surfaced[i]: the r_hash the payment view of invoice i carried
    last        \* the last request served: route, argument, node calls, response

vars == <<pc, detected, LND_DIR, REST_HOST, invoices, surfaced, last>>

(***************************************************************************)
(* Bounds                                                                  *)
(***************************************************************************)
\* number of invoices the node issues in a run
MaxInvoices == 2
\* length of an r_hash in bytes (32 in LND; 2 keeps 32's remainder modulo 3,
\* so the base64 text ends in one padding character as it does for 32 bytes)
HashLen == 2

\* byte values an r_hash is drawn from: 0x0a, whose first hexadecimal digit is
\* zero, and 0xab, whose digits are both letters
ByteSet == {10, 171}

(***************************************************************************)
(* Python helpers                                                          *)
(***************************************************************************)
\* the value None where the other values are strings
None == "None"

\* truth value of a str-or-None: None and the empty string are falsy
Falsy(x) == x = None \/ x = ""

\* dict.get(key, default)
Get(d, key, default) == IF key \in DOMAIN d THEN d[key] ELSE default

Min(S) == CHOOSE x \in S : \A y \in S : x <= y

\* all byte strings of length n over ByteSet
RECURSIVE BytesOfLen(_)
BytesOfLen(n) ==
    IF n = 0 THEN {<<>>}
    ELSE {<<b>> \o t : b \in ByteSet, t \in BytesOfLen(n - 1)}

HexDigits == <<"0", "1", "2", "3", "4", "5", "6", "7",
               "8", "9", "a", "b", "c", "d", "e", "f">>

\* hex with the two digits of a byte in the wrong order
RECURSIVE hexLowFirst(_)
hexLowFirst(bs) ==
    IF Len(bs) = 0 THEN <<>>
    ELSE <<HexDigits[(Head(bs) % 16) + 1], HexDigits[(Head(bs) \div 16) + 1]>>
         \o hexLowFirst(Tail(bs))

\* bytes.hex(): two lowercase hexadecimal digits per byte, high nibble first
RECURSIVE hex(_)
hex(bs) ==
    IF Len(bs) = 0 THEN <<>>
    ELSE <<HexDigits[(Head(bs) \div 16) + 1], HexDigits[(Head(bs) % 16) + 1]>>
         \o hex(Tail(bs))

B64Chars == <<"A", "B", "C", "D", "E", "F", "G", "H", "I", "J", "K", "L", "M",
              "N", "O", "P", "Q", "R", "S", "T", "U", "V", "W", "X", "Y", "Z",
              "a", "b", "c", "d", "e", "f", "g", "h", "i", "j", "k", "l", "m",
              "n", "o", "p", "q", "r", "s", "t", "u", "v", "w", "x", "y", "z",
              "0", "1", "2", "3", "4", "5", "6", "7", "8", "9", "+", "/">>

B64Pad == "="

\* the 6-bit value of a base64 character
B64Value(c) == (CHOOSE i \in DOMAIN B64Chars : B64Chars[i] = c) - 1

IsB64Char(c) == \E i \in DOMAIN B64Chars : B64Chars[i] = c

\* base64.b64decode(s) with the default validate=False: characters outside
\* the alphabet are discarded, then every group of four characters gives three
\* bytes; a final group with one or two padding characters gives two or one
\* bytes; anything else raises binascii.Error
RECURSIVE B64Groups(_)
B64Groups(s) ==
    IF Len(s) = 0 THEN [ok |-> TRUE, bytes |-> <<>>]
    ELSE IF Len(s) < 4 THEN [ok |-> FALSE, bytes |-> <<>>]
    ELSE LET c1 == s[1]
             c2 == s[2]
             c3 == s[3]
             c4 == s[4]
             rest == SubSeq(s, 5, Len(s))
         IN  IF c1 = B64Pad \/ c2 = B64Pad
                THEN [ok |-> FALSE, bytes |-> <<>>]
             ELSE IF c3 = B64Pad
                THEN IF c4 = B64Pad
                        THEN [ok |-> TRUE,
                              bytes |-> <<B64Value(c1) * 4 + (B64Value(c2) \div 16)>>]
                        ELSE [ok |-> FALSE, bytes |-> <<>>]
             ELSE IF c4 = B64Pad
                THEN [ok |-> TRUE,
                      bytes |-> <<B64Value(c1) * 4 + (B64Value(c2) \div 16),
                                  (B64Value(c2) % 16) * 16 + (B64Value(c3) \div 4)>>]
             ELSE LET t == B64Groups(rest)
                  IN  [ok |-> t.ok,
                       bytes |-> <<B64Value(c1) * 4 + (B64Value(c2) \div 16),
                                   (B64Value(c2) % 16) * 16 + (B64Value(c3) \div 4),
                                   (B64Value(c3) % 4) * 64 + B64Value(c4)>>
                                 \o t.bytes]

b64decode(s) ==
    B64Groups(SelectSeq(s, LAMBDA c : IsB64Char(c) \/ c = B64Pad))

LowerChars == <<"a", "b", "c", "d", "e", "f", "g", "h", "i", "j", "k", "l", "m",
                "n", "o", "p", "q", "r", "s", "t", "u", "v", "w", "x", "y", "z">>

UpperChars == <<"A", "B", "C", "D", "E", "F", "G", "H", "I", "J", "K", "L", "M",
                "N", "O", "P", "Q", "R", "S", "T", "U", "V", "W", "X", "Y", "Z">>

\* str.upper()
upper(s) ==
    [i \in DOMAIN s |->
        IF \E k \in DOMAIN LowerChars : LowerChars[k] = s[i]
           THEN UpperChars[CHOOSE k \in DOMAIN LowerChars : LowerChars[k] = s[i]]
           ELSE s[i]]

(***************************************************************************)
(* Collaborators: polar_detect, LNDClient and the LND node                 *)
(***************************************************************************)
\* the nodes labelled "bob" that discovery can find, one per Polar network
PolarNodes ==
    { [lnd_dir |-> "~/.polar/networks/1/volumes/lnd/bob", rest_host |-> "https://127.0.0.1:8082"],
      [lnd_dir |-> "~/.polar/networks/2/volumes/lnd/bob", rest_host |-> "https://127.0.0.1:8085"] }

\* polar_detect.auto_detect(label): the credential directory and REST host of
\* the discovered node, or (None, None) when no network or no such node is found
auto_detect ==
    { <<n.lnd_dir, n.rest_host>> : n \in PolarNodes } \cup { <<None, None>> }

\* the node's base64 rendering of r_hash in its JSON replies (standard
\* alphabet, padded)
RECURSIVE NodeB64Encode(_)
NodeB64Encode(bs) ==
    IF Len(bs) = 0 THEN <<>>
    ELSE IF Len(bs) = 1
        THEN <<B64Chars[(bs[1] \div 4) + 1], B64Chars[((bs[1] % 4) * 16) + 1],
               B64Pad, B64Pad>>
    ELSE IF Len(bs) = 2
        THEN <<B64Chars[(bs[1] \div 4) + 1],
               B64Chars[((bs[1] % 4) * 16 + (bs[2] \div 16)) + 1],
               B64Chars[((bs[2] % 16) * 4) + 1], B64Pad>>
    ELSE <<B64Chars[(bs[1] \div 4) + 1],
           B64Chars[((bs[1] % 4) * 16 + (bs[2] \div 16)) + 1],
           B64Chars[((bs[2] % 16) * 4 + (bs[3] \div 64)) + 1],
           B64Chars[(bs[3] % 64) + 1]>>
         \o NodeB64Encode(SubSeq(bs, 4, Len(bs)))

\* the node's reading of the r_hash_str path parameter: pairs of hexadecimal
\* digits, high nibble first
IsHexDigit(c) == \E i \in DOMAIN HexDigits : HexDigits[i] = c

HexValue(c) == (CHOOSE i \in DOMAIN HexDigits : HexDigits[i] = c) - 1

RECURSIVE NodeHexDecode(_)
NodeHexDecode(s) ==
    IF Len(s) = 0 THEN [ok |-> TRUE, bytes |-> <<>>]
    ELSE IF Len(s) = 1 \/ ~IsHexDigit(s[1]) \/ ~IsHexDigit(s[2])
        THEN [ok |-> FALSE, bytes |-> <<>>]
    ELSE LET t == NodeHexDecode(SubSeq(s, 3, Len(s)))
         IN  [ok |-> t.ok,
              bytes |-> <<HexValue(s[1]) * 16 + HexValue(s[2])>> \o t.bytes]

\* the invoices of the node's store that an r_hash_str identifies
NodeFind(s) ==
    LET d == NodeHexDecode(s)
    IN  IF d.ok THEN {i \in DOMAIN invoices : invoices[i].r_hash = d.bytes}
        ELSE {}

\* the payment request string the node issues for an invoice
NodePayReq(h) ==
    <<"l", "n", "b", "c", "r", "t", "1">>
    \o [k \in 1..(2 * Len(h)) |->
          IF k % 2 = 1 THEN HexDigits[(h[(k + 1) \div 2] \div 16) + 1]
          ELSE HexDigits[(h[k \div 2] % 16) + 1]]

Raised(m) == [raised |-> TRUE, msg |-> m]

Returned(v) == [raised |-> FALSE, value |-> v]

\* LNDClient.add_invoice(amount, memo): what the call can do.  h is the
\* r_hash the node draws for the new invoice.
AddInvoiceOutcomes(amount, memo) ==
    { Raised("NodeUnavailable") }
    \cup { Returned([error |-> "permission denied"]) }
    \cup (IF amount <= 0
            THEN { Raised("InvalidRequest") }
            ELSE { Returned([r_hash |-> NodeB64Encode(h),
                             payment_request |-> NodePayReq(h),
                             add_index |-> Len(invoices) + 1]) :
                     h \in { x \in BytesOfLen(HashLen) :
                               /\ Len(invoices) < MaxInvoices
                               /\ \A i \in DOMAIN invoices : invoices[i].r_hash # x } })

\* the node's store after add_invoice with the given outcome
NodeAfterAdd(amount, memo, out) ==
    IF ~out.raised /\ "add_index" \in DOMAIN out.value
       THEN Append(invoices,
                   [r_hash |-> (CHOOSE x \in BytesOfLen(HashLen) :
                                    NodeB64Encode(x) = out.value.r_hash),
                    settled |-> FALSE])
       ELSE invoices

\* LNDClient.lookup_invoice(r_hash_str): what the call can do.  The node's
\* JSON omits a false settled field or carries it.
LookupOutcomes(s) ==
    { Raised("NodeUnavailable") }
    \cup (IF NodeFind(s) = {}
            THEN { Raised("NotFound") }
            ELSE UNION { IF invoices[i].settled
                            THEN { Returned([add_index |-> i, settled |-> TRUE]) }
                            ELSE { Returned([add_index |-> i, settled |-> FALSE]),
                                   Returned([add_index |-> i]) }
                         : i \in NodeFind(s) })

\* LNDClient.get_info(): what the call can do
GetInfoOutcomes ==
    { Raised("NodeUnavailable"),
      Returned([alias |-> "bob", identity_pubkey |-> "02bob",
                num_active_channels |-> 1, synced_to_chain |-> TRUE]),
      Returned([alias |-> "bob", identity_pubkey |-> "02bob"]),
      Returned([version |-> "0.18"]) }

\* LNDClient.channel_balance(): what the call can do
ChannelBalanceOutcomes ==
    { Raised("NodeUnavailable"),
      Returned([local_balance |-> "5000", balance |-> "7000"]),
      Returned([balance |-> "7000"]),
      Returned([pending_open_balance |-> "0"]) }

(***************************************************************************)
(* app.py: configuration and helpers                                       *)
(***************************************************************************)
\* the catalog loaded from products.json
PRODUCTS ==
    << [id |-> "tshirt", name |-> "Bitcoin T-Shirt", price |-> 1500],
       [id |-> "sticker", name |-> "Lightning Sticker", price |-> 500] >>

\* product ids a request can carry: the catalog's and one that is not in it
ProductIds == { PRODUCTS[i].id : i \in DOMAIN PRODUCTS } \cup { "nonexistent-id" }

\* the manual defaults of the configuration section
DefaultLndDir == "~/bootcamp-code/day3/bob"

DefaultRestHost == "https://localhost:8082"

\* the fallback of LND_DIR taken whatever discovery returned
ResolveLndDirAlways(d) == DefaultLndDir

\* if not LND_DIR: LND_DIR = <manual default>
ResolveLndDir(d) == IF Falsy(d) THEN DefaultLndDir ELSE d

\* if not REST_HOST: REST_HOST = <manual default>
ResolveRestHost(h) == IF Falsy(h) THEN DefaultRestHost ELSE h

\* the absent product (Python's None where the other values are products)
NoProduct == [id |-> None]

\* get_product falling back to the first product of the catalog
get_productFirst(product_id) ==
    LET hits == {i \in DOMAIN PRODUCTS : PRODUCTS[i].id = product_id}
    IN  IF hits = {} THEN PRODUCTS[1] ELSE PRODUCTS[Min(hits)]

\* get_product(product_id): the first product of the catalog with that id
get_product(product_id) ==
    LET hits == {i \in DOMAIN PRODUCTS : PRODUCTS[i].id = product_id}
    IN  IF hits = {} THEN NoProduct ELSE PRODUCTS[Min(hits)]

\* generate_qr_base64(data): the image is a function of the data and of the
\* fixed parameters version, box_size and border
generate_qr_base64(data) ==
    [png |-> data, version |-> 1, box_size |-> 8, border |-> 2]

\* the request that was served before any request
NoRequest == [op |-> "none"]

(***************************************************************************)
(* app.py: routes                                                          *)
(***************************************************************************)
\* checkout whose except branch shows a fixed text instead of str(e)
checkout_responseGeneric(product, out) ==
    LET failed(m) == [status |-> 200,
                      body |-> [template |-> "error.html",
                                error |-> "Payment is unavailable",
                                product |-> product]]
    IN  IF out.raised THEN failed(out.msg)
        ELSE IF "payment_request" \notin DOMAIN out.value
            THEN failed("'payment_request'")
        ELSE IF "r_hash" \notin DOMAIN out.value
            THEN failed("'r_hash'")
        ELSE LET payment_request == out.value.payment_request
                 raw == b64decode(out.value.r_hash)
             IN  IF ~raw.ok THEN failed("Incorrect padding")
                 ELSE [status |-> 200,
                       body |-> [template |-> "checkout.html",
                                 product |-> product,
                                 payment_request |-> payment_request,
                                 r_hash |-> hex(raw.bytes),
                                 qr_base64 |-> generate_qr_base64(upper(payment_request))]]

\* the body of checkout after get_product found the product: the try block
\* run against the outcome of lnd.add_invoice, and its except branch
checkout_response(product, out) ==
    LET failed(m) == [status |-> 200,
                      body |-> [template |-> "error.html", error |-> m,
                                product |-> product]]
    IN  IF out.raised THEN failed(out.msg)
        ELSE IF "payment_request" \notin DOMAIN out.value
            THEN failed("'payment_request'")
        ELSE IF "r_hash" \notin DOMAIN out.value
            THEN failed("'r_hash'")
        ELSE LET payment_request == out.value.payment_request
                 raw == b64decode(out.value.r_hash)
             IN  IF ~raw.ok THEN failed("Incorrect padding")
                 ELSE [status |-> 200,
                       body |-> [template |-> "checkout.html",
                                 product |-> product,
                                 payment_request |-> payment_request,
                                 r_hash |-> hex(raw.bytes),
                                 qr_base64 |-> generate_qr_base64(upper(payment_request))]]

\* GET /checkout/<product_id>
checkout(product_id) ==
    /\ pc = "serving"
    /\ LET product == get_product(product_id)
       IN  IF product = NoProduct
              THEN /\ last' = [op |-> "checkout", arg |-> product_id, calls |-> <<>>,
                               status |-> 404, body |-> "Product not found"]
                   /\ UNCHANGED <<invoices, surfaced>>
              ELSE LET memo == <<"Webstore: ", product.name>>
                   IN  \E out \in AddInvoiceOutcomes(product.price, memo) :
                         LET resp == checkout_response(product, out)
                             issued == NodeAfterAdd(product.price, memo, out)
                         IN  /\ invoices' = issued
                             /\ surfaced' =
                                  IF Len(issued) > Len(invoices)
                                     THEN Append(surfaced,
                                                 IF resp.body.template = "checkout.html"
                                                    THEN resp.body.r_hash ELSE <<>>)
                                     ELSE surfaced
                             /\ last' = [op |-> "checkout", arg |-> product_id,
                                         calls |-> << [fn |-> "add_invoice",
                                                       amount |-> product.price,
                                                       memo |-> memo, out |-> out] >>,
                                         status |-> resp.status, body |-> resp.body]
    /\ UNCHANGED <<pc, detected, LND_DIR, REST_HOST>>

\* check_payment whose except branch leaves the error key out
check_payment_responseNoError(out) ==
    IF out.raised
       THEN [settled |-> FALSE]
       ELSE [settled |-> Get(out.value, "settled", FALSE)]

\* check_payment that never reads the snapshot
check_payment_responseNeverSettled(out) ==
    IF out.raised
       THEN [settled |-> FALSE, error |-> out.msg]
       ELSE [settled |-> FALSE]

\* check_payment whose except branch reports the invoice as settled
check_payment_responseErrorSettled(out) ==
    IF out.raised
       THEN [settled |-> TRUE, error |-> out.msg]
       ELSE [settled |-> Get(out.value, "settled", FALSE)]

\* check_payment with the default of a missing settled field inverted
check_payment_responseDefaultTrue(out) ==
    IF out.raised
       THEN [settled |-> FALSE, error |-> out.msg]
       ELSE [settled |-> Get(out.value, "settled", TRUE)]

\* the body of check_payment run against the outcome of lnd.lookup_invoice
check_payment_response(out) ==
    IF out.raised
       THEN [settled |-> FALSE, error |-> out.msg]
       ELSE [settled |-> Get(out.value, "settled", FALSE)]

\* check_payment that gives an invoice up when its lookup raises
check_paymentGiveUp(r_hash) ==
    /\ pc = "serving"
    /\ \E out \in LookupOutcomes(r_hash) :
         /\ last' = [op |-> "check_payment", arg |-> r_hash,
                     calls |-> << [fn |-> "lookup_invoice", r_hash_str |-> r_hash,
                                   out |-> out] >>,
                     node |-> invoices,
                     status |-> 200, body |-> check_payment_response(out)]
         /\ surfaced' = IF out.raised
                           THEN [i \in DOMAIN surfaced |->
                                   IF surfaced[i] = r_hash THEN <<>> ELSE surfaced[i]]
                           ELSE surfaced
    /\ UNCHANGED <<pc, detected, LND_DIR, REST_HOST, invoices>>

\* GET /api/check_payment/<r_hash>
check_payment(r_hash) ==
    /\ pc = "serving"
    /\ \E out \in LookupOutcomes(r_hash) :
         last' = [op |-> "check_payment", arg |-> r_hash,
                  calls |-> << [fn |-> "lookup_invoice", r_hash_str |-> r_hash,
                                out |-> out] >>,
                  node |-> invoices,
                  status |-> 200, body |-> check_payment_response(out)]
    /\ UNCHANGED <<pc, detected, LND_DIR, REST_HOST, invoices, surfaced>>

\* GET /success/<product_id>
success(product_id) ==
    /\ pc = "serving"
    /\ LET product == get_product(product_id)
       IN  last' = IF product = NoProduct
                      THEN [op |-> "success", arg |-> product_id, calls |-> <<>>,
                            status |-> 404, body |-> "Product not found"]
                      ELSE [op |-> "success", arg |-> product_id, calls |-> <<>>,
                            status |-> 200,
                            body |-> [template |-> "success.html", product |-> product]]
    /\ UNCHANGED <<pc, detected, LND_DIR, REST_HOST, invoices, surfaced>>

\* GET /
index ==
    /\ pc = "serving"
    /\ last' = [op |-> "index", arg |-> <<>>, calls |-> <<>>, status |-> 200,
                body |-> [template |-> "index.html", products |-> PRODUCTS]]
    /\ UNCHANGED <<pc, detected, LND_DIR, REST_HOST, invoices, surfaced>>

\* node_info that fills in the defaults when a node call raises
node_info_responseDefaults(info, balance) ==
    IF info.raised \/ balance.raised
       THEN [alias |-> "unknown", pubkey |-> "unknown", channels |-> 0,
             synced |-> FALSE, balance |-> "0"]
       ELSE [alias |-> Get(info.value, "alias", "unknown"),
             pubkey |-> Get(info.value, "identity_pubkey", "unknown"),
             channels |-> Get(info.value, "num_active_channels", 0),
             synced |-> Get(info.value, "synced_to_chain", FALSE),
             balance |-> Get(balance.value, "local_balance",
                             Get(balance.value, "balance", "0"))]

\* the body of node_info run against the outcomes of lnd.get_info and
\* lnd.channel_balance (the second is not called when the first raises)
node_info_response(info, balance) ==
    IF info.raised THEN [error |-> info.msg]
    ELSE IF balance.raised THEN [error |-> balance.msg]
    ELSE [alias |-> Get(info.value, "alias", "unknown"),
          pubkey |-> Get(info.value, "identity_pubkey", "unknown"),
          channels |-> Get(info.value, "num_active_channels", 0),
          synced |-> Get(info.value, "synced_to_chain", FALSE),
          balance |-> Get(balance.value, "local_balance",
                          Get(balance.value, "balance", "0"))]

\* GET /api/node_info
node_info ==
    /\ pc = "serving"
    /\ \E info \in GetInfoOutcomes :
         \E balance \in ChannelBalanceOutcomes :
            last' = [op |-> "node_info", arg |-> <<>>,
                     calls |-> IF info.raised
                                  THEN << [fn |-> "get_info", out |-> info] >>
                                  ELSE << [fn |-> "get_info", out |-> info],
                                          [fn |-> "channel_balance", out |-> balance] >>,
                     status |-> 200, body |-> node_info_response(info, balance)]
    /\ UNCHANGED <<pc, detected, LND_DIR, REST_HOST, invoices, surfaced>>

\* the configuration section: auto-detect LND from Polar, or use the manual
\* defaults, then construct the client
Startup ==
    /\ pc = "boot"
    /\ \E d \in auto_detect :
         /\ detected' = d
         /\ LND_DIR' = ResolveLndDir(d[1])
         /\ REST_HOST' = ResolveRestHost(d[2])
    /\ pc' = "serving"
    /\ UNCHANGED <<invoices, surfaced, last>>

\* the payer pays an invoice and the node settles it
Settle ==
    /\ pc = "serving"
    /\ \E i \in DOMAIN invoices :
         /\ ~invoices[i].settled
         /\ invoices' = [invoices EXCEPT ![i].settled = TRUE]
    /\ UNCHANGED <<pc, detected, LND_DIR, REST_HOST, surfaced, last>>

\* r_hash values a poller can send: those the payment views carried, one that
\* is well formed and unknown to the node, one that is not hexadecimal
PollHashes ==
    { surfaced[i] : i \in DOMAIN surfaced }
    \cup { hex([k \in 1..HashLen |-> 1]), <<"n", "o", "p", "e">> }

Init ==
    /\ pc = "boot"
    /\ detected = <<None, None>>
    /\ LND_DIR = None
    /\ REST_HOST = None
    /\ invoices = <<>>
    /\ surfaced = <<>>
    /\ last = NoRequest

Next ==
    \/ Startup
    \/ index
    \/ \E product_id \in ProductIds : checkout(product_id)
    \/ \E r_hash \in PollHashes : check_payment(r_hash)
    \/ \E product_id \in ProductIds : success(product_id)
    \/ node_info
    \/ Settle

Spec == Init /\ [][Next]_vars

(***************************************************************************)
(* Properties                                                              *)
(***************************************************************************)
\* the last request was a settlement poll
Polled == last.op = "check_payment"

\* the outcome of lookup_invoice in the last settlement poll
LookupOut == last.calls[1].out

\* the last request was a settlement poll of invoice i, which the node had
\* issued before the poll
PolledInvoice(i) ==
    /\ Polled
    /\ i \in DOMAIN surfaced
    /\ i \in DOMAIN last.node
    /\ surfaced[i] = last.arg

\* the last request was a checkout
CheckedOut == last.op = "checkout"

InCatalog(product_id) == \E i \in DOMAIN PRODUCTS : PRODUCTS[i].id = product_id

PaymentView == CheckedOut /\ last.status = 200 /\ last.body.template = "checkout.html"

ErrorView == CheckedOut /\ last.status = 200 /\ last.body.template = "error.html"

NodeInfoFields == {"alias", "pubkey", "channels", "synced", "balance"}

\* C1: check_payment always answers with a JSON body and never with a
\* propagated exception: when lookup_invoice returned, the body is exactly
\* {settled: <boolean>}; when lookup_invoice raised, the body is exactly
\* {settled: false, error: <the exception's text>}.
C1_CheckPaymentNeverRaises ==
    Polled =>
        /\ last.status = 200
        /\ Len(last.calls) = 1
        /\ IF LookupOut.raised
              THEN /\ DOMAIN last.body = {"settled", "error"}
                   /\ last.body.settled = FALSE
                   /\ last.body.error = LookupOut.msg
              ELSE /\ DOMAIN last.body = {"settled"}
                   /\ last.body.settled \in BOOLEAN

C1_Witness ==
    /\ Polled
    /\ LookupOut.raised
    /\ "error" \in DOMAIN last.body

\* C2 as stated: node_info always answers with the five fields alias, pubkey,
\* channels, synced and balance, also when get_info or channel_balance fails.
C2_AlwaysFiveFields ==
    last.op = "node_info" => DOMAIN last.body = NodeInfoFields

\* C2 as amended: node_info never propagates an exception; when get_info and
\* channel_balance both return, the body has exactly the five fields, each the
\* node's value or its default when the node's reply lacks it; when either
\* call raises, the body is exactly {error: <the exception's text>}.
C2_NodeInfoFieldsOrError ==
    last.op = "node_info" =>
        /\ last.status = 200
        /\ LET info == last.calls[1].out
           IN  IF info.raised
                  THEN /\ Len(last.calls) = 1
                       /\ last.body = [error |-> info.msg]
               ELSE LET balance == last.calls[2].out
                    IN  IF balance.raised
                           THEN last.body = [error |-> balance.msg]
                        ELSE /\ DOMAIN last.body = NodeInfoFields
                             /\ last.body.alias =
                                  IF "alias" \in DOMAIN info.value
                                     THEN info.value.alias ELSE "unknown"
                             /\ last.body.pubkey =
                                  IF "identity_pubkey" \in DOMAIN info.value
                                     THEN info.value.identity_pubkey ELSE "unknown"
                             /\ last.body.channels =
                                  IF "num_active_channels" \in DOMAIN info.value
                                     THEN info.value.num_active_channels ELSE 0
                             /\ last.body.synced =
                                  IF "synced_to_chain" \in DOMAIN info.value
                                     THEN info.value.synced_to_chain ELSE FALSE
                             /\ last.body.balance =
                                  IF "local_balance" \in DOMAIN balance.value
                                     THEN balance.value.local_balance
                                  ELSE IF "balance" \in DOMAIN balance.value
                                     THEN balance.value.balance
                                  ELSE "0"

C2_Witness ==
    /\ last.op = "node_info"
    /\ Len(last.calls) = 2
    /\ last.calls[2].out.raised
    /\ DOMAIN last.body = {"error"}

C4_PollFollowsNode ==
    \A i \in DOMAIN surfaced :
        PolledInvoice(i) => last.body.settled = last.node[i].settled

\* C4 as amended: a poll of an invoice created by checkout answers
\* settled=false while the node has not settled the invoice; once the node
\* has settled it, every poll whose lookup_invoice returns answers
\* settled=true, and a poll whose lookup_invoice raises answers settled=false.
C4_PollFollowsNodeWhenReachable ==
    \A i \in DOMAIN surfaced :
        PolledInvoice(i) =>
            /\ ~last.node[i].settled => last.body.settled = FALSE
            /\ (last.node[i].settled /\ ~LookupOut.raised) => last.body.settled = TRUE
            /\ LookupOut.raised => last.body.settled = FALSE

C4_Witness ==
    \E i \in DOMAIN surfaced :
        /\ PolledInvoice(i)
        /\ last.node[i].settled
        /\ ~LookupOut.raised
        /\ last.body.settled = TRUE

\* C5: a checkout of a product id that is not in the catalog answers 404
\* "Product not found", renders neither the error view nor the payment view,
\* and makes no call to the node.
C5_UnknownProductNotFound ==
    (CheckedOut /\ ~InCatalog(last.arg)) =>
        /\ last.status = 404
        /\ last.body = "Product not found"
        /\ last.calls = <<>>

C5_Witness ==
    /\ CheckedOut
    /\ last.arg = "nonexistent-id"
    /\ last.status = 404

\* C6: a checkout of a catalog product whose add_invoice call raises renders
\* the error view with the exception's text, not the payment view, and the
\* request made exactly one add_invoice call, for the product's price.
C6_CheckoutFailureTerminal ==
    (CheckedOut /\ InCatalog(last.arg)) =>
        /\ Len(last.calls) = 1
        /\ last.calls[1].fn = "add_invoice"
        /\ last.calls[1].amount = get_product(last.arg).price
        /\ last.calls[1].out.raised =>
              /\ ErrorView
              /\ last.body.error = last.calls[1].out.msg
              /\ "payment_request" \notin DOMAIN last.body

C6_Witness ==
    /\ CheckedOut
    /\ InCatalog(last.arg)
    /\ last.calls[1].out.raised
    /\ ErrorView

\* C7: when a checkout has rendered a payment view and the next request is a
\* poll of the r_hash of that view, with the invoice still unpaid, the poll
\* answers settled=false.
C7_FreshInvoiceUnsettled ==
    [][ ( /\ PaymentView
          /\ \A i \in DOMAIN surfaced :
                surfaced[i] = last.body.r_hash => ~invoices[i].settled
          /\ last'.op = "check_payment"
          /\ last'.arg = last.body.r_hash )
        => last'.body.settled = FALSE ]_vars

C7_Witness ==
    /\ Polled
    /\ Len(surfaced) > 0
    /\ PolledInvoice(Len(surfaced))
    /\ ~invoices[Len(surfaced)].settled
    /\ ~LookupOut.raised
    /\ last.body.settled = FALSE

\* C8: the r_hash a payment view carries is the lowercase hexadecimal text of
\* the invoice's hash; the node resolves it to exactly the invoice that
\* add_invoice created for that view; two invoices never carry the same
\* r_hash; and a poll hands the r_hash it received to lookup_invoice
\* unchanged, so that the snapshot it reads is that invoice's.
C8_IdentifierRoundTrip ==
    /\ Len(surfaced) = Len(invoices)
    /\ \A i \in DOMAIN invoices :
          /\ Len(surfaced[i]) = 2 * HashLen
          /\ \A k \in DOMAIN surfaced[i] : IsHexDigit(surfaced[i][k])
          /\ NodeFind(surfaced[i]) = {i}
    /\ \A i, j \in DOMAIN surfaced : surfaced[i] = surfaced[j] => i = j
    /\ PaymentView => \E i \in DOMAIN surfaced : surfaced[i] = last.body.r_hash
    /\ Polled =>
          /\ last.calls[1].r_hash_str = last.arg
          /\ \A i \in DOMAIN surfaced :
                (PolledInvoice(i) /\ ~LookupOut.raised) =>
                    LookupOut.value.add_index = i

C8_Witness ==
    /\ Len(invoices) = 2
    /\ PolledInvoice(2)
    /\ ~LookupOut.raised
    /\ LookupOut.value.add_index = 2

\* C9: a poll whose lookup_invoice raises changes neither the node's invoices
\* nor the identifiers handed out nor the configuration; and a poll whose
\* lookup_invoice returns answers the settled value the node holds for the
\* invoice at that moment, whatever polls failed before.
C9_FailedPollChangesNothing ==
    /\ [][ (last' # last /\ last'.op = "check_payment" /\ last'.calls[1].out.raised)
           => /\ invoices' = invoices
              /\ surfaced' = surfaced
              /\ pc' = pc
              /\ LND_DIR' = LND_DIR
              /\ REST_HOST' = REST_HOST ]_vars
    /\ [](\A i \in DOMAIN surfaced :
            (PolledInvoice(i) /\ ~LookupOut.raised) =>
                last.body.settled = last.node[i].settled)

C9_Witness ==
    \E i \in DOMAIN surfaced :
        /\ PolledInvoice(i)
        /\ LookupOut.raised
        /\ ~invoices[i].settled

\* C10: a poll answers settled=true only if lookup_invoice returned in that
\* poll and the snapshot it returned has a settled field that is true.
C10_NoFalseSettlement ==
    (Polled /\ last.body.settled = TRUE) =>
        /\ ~LookupOut.raised
        /\ "settled" \in DOMAIN LookupOut.value
        /\ LookupOut.value.settled = TRUE
        /\ \E i \in DOMAIN last.node :
              /\ PolledInvoice(i)
              /\ last.node[i].settled

C10_Witness ==
    /\ Polled
    /\ last.body.settled = TRUE
    /\ ~LookupOut.raised

====
